---- MODULE Spec2Model ----
(***************************************************************************)
(* Employee directory client: the list controller (EmployeeList), the      *)
(* filter bar (EmployeeFiltersComponent) and the create/update form        *)
(* (EmployeeForm), modelled as state machines over React state.            *)
(*                                                                         *)
(* A handler is one action: the setState calls it makes, followed by the   *)
(* effects React runs on the render they cause (the fetch effect of        *)
(* EmployeeList runs in the same step as the filter update that triggers   *)
(* it).  An await splits a handler: the part before it is one action, the  *)
(* continuation (success or failure of the request) is another, and it     *)
(* runs with the values its closure captured when the handler started.     *)
(***************************************************************************)
EXTENDS Integers, FiniteSets, Sequences, TLC

(***************************************************************************)
(* Bounds of the model.                                                    *)
(***************************************************************************)
MaxRequests == 4      \* list requests issued in one behaviour of Spec
MaxRefreshes == 3     \* list requests issued in one behaviour of MutationSpec
MaxMutations == 2     \* delete, create and update calls issued in one behaviour
MaxSaves == 1         \* create and update requests sent by one form
MaxAuthCalls == 3     \* login and register calls made in one behaviour
MaxChecks == 4        \* health checks started in one behaviour

(***************************************************************************)
(* Values.                                                                 *)
(***************************************************************************)
Null == "null"
Undef == "undefined"
Ids == {"e1", "e2"}
LoadErrMsg == "Failed to load employees. Please try again."
DeleteErrMsg == "Failed to delete employee. Please try again."

\* The page numbers handed to handlePageChange, and the page counts the list
\* endpoint answers with.
PageInputs == {1, 2, 5}
TotalPagesAnswers == {1, 2}

FilterKeys == {"search", "department", "title", "location"}

\* The texts a user can type or pick for a filter key; "" is the empty input
\* (search box) or the chip's clear button (handleFilterChange(key, '')).
FilterValues(key) ==
  CASE key = "search" -> {"", "a", "ab"}
    [] key = "department" -> {"", "Engineering"}
    [] key = "title" -> {"", "Developer"}
    [] key = "location" -> {"", "Lahore"}

\* JavaScript truthiness of an optional string.
Truthy(v) == v # Undef /\ v # Null /\ v # ""

\* `v || ''`
OrEmpty(v) == IF Truthy(v) THEN v ELSE ""

VARIABLES
  mounted,        \* the mount effect of EmployeeList has run
  filters,        \* EmployeeList state `filters`
  employees,      \* EmployeeList state `employees` (the held result)
  loading,        \* EmployeeList state `loading`
  error,          \* EmployeeList state `error`
  deleteId,       \* EmployeeList state `deleteId`
  deleteConfirmed, \* the confirm button was clicked since deleteId was set
  seq,            \* number of list requests issued so far
  listInflight,   \* list requests awaiting their response
  nDeletes,       \* number of network delete calls issued so far
  deleteInflight, \* delete calls awaiting their response
  nSubmits,       \* number of form requests issued so far
  formInflight,   \* create/update requests awaiting their response
  \* EmployeeForm
  open,           \* the form is mounted (onClose has not been called)
  employee,       \* prop `employee`: the record being edited, or undefined
  departments,    \* state `departments` (the department options)
  dropdownsLoaded,\* state `dropdownsLoaded`
  dropdownReq,    \* the option requests of the mount effect
  form,           \* the values held by react-hook-form
  imagePreview,   \* state `imagePreview`
  imageType,      \* state `imageType`
  imageChanged,   \* state `imageChanged`
  uploading,      \* state `uploading`
  uploadPending,  \* the upload request awaits the image host's answer
  emailError,     \* state `emailError`
  nSaves,         \* number of create/update requests sent so far
  isSubmitted,    \* formState.isSubmitted of react-hook-form
  saveInflight,   \* create/update requests awaiting their response
  refreshes,      \* number of onSuccess() calls made
  imgAction,      \* the user's last image action in this editing session
  \* EmployeeFiltersComponent
  filterDepartments, \* state `departments` (titles and locations alike)
  filterOptionsReq,  \* the option requests of the mount effect
  \* AuthService
  storage,        \* localStorage: the items auth_token and auth_user
  nAuth,          \* number of login and register calls made so far
  authInflight,   \* login and register requests awaiting their response
  \* BackendStatus
  status,         \* BackendStatus state `status`
  lastCheck,      \* BackendStatus state `lastCheck`: the check that set it
  lastResult,     \* how the most recent completed health check ended
  nChecks,        \* number of health checks started so far
  healthInflight, \* health checks awaiting their response
  statusRender,   \* which version of the BackendStatus render is mounted
  \* API proxy route
  proxyReq,       \* the request the proxy route is handling
  backendAnswer,  \* what the backend did with the forwarded request
  proxyRes        \* the response the proxy route returned

listVars == <<mounted, filters, employees, loading, error, deleteId,
              deleteConfirmed, seq, listInflight, nDeletes, deleteInflight,
              nSubmits, formInflight>>

formVars == <<open, employee, departments, dropdownsLoaded, dropdownReq, form,
              imagePreview, imageType, imageChanged, uploading, uploadPending,
              emailError, nSaves, isSubmitted, saveInflight, refreshes,
              imgAction>>

optionVars == <<filterDepartments, filterOptionsReq>>

authVars == <<storage, nAuth, authInflight>>

healthVars == <<status, lastCheck, lastResult, nChecks, healthInflight,
                statusRender>>

proxyVars == <<proxyReq, backendAnswer, proxyRes>>

\* The state of the employee list page.
pageVars == <<listVars, formVars, optionVars>>

\* The state of the parts that live beside the employee list page.
sideVars == <<authVars, healthVars, proxyVars>>

vars == <<pageVars, sideVars>>

(***************************************************************************)
(* EmployeeList                                                            *)
(***************************************************************************)

\* useState<EmployeeFilters>({ page: 1, limit: 10 })
InitialFilters ==
  [search |-> Undef, department |-> Undef, title |-> Undef, location |-> Undef,
   page |-> 1, limit |-> 10]

\* The answer of the list endpoint to request r: the records of the page the
\* request asked for (identified by the request), and the page count tp.
Response(r, tp) ==
  [tag |-> r.id, page |-> r.filters.page, totalPages |-> tp]

\* Variant: the list region shows the held result even while loading.
Rendered_NoSpinner == [region |-> "list", result |-> employees]

\* What the user sees in the list region: the spinner whenever loading is
\* true, the held result otherwise.
Rendered ==
  IF loading THEN [region |-> "spinner"]
  ELSE [region |-> "list", result |-> employees]

\* Variant: the query keeps the truthy values only.
getAllParams_DropsFalsy(f) ==
  LET kept == {k \in DOMAIN f :
                 IF k \in FilterKeys THEN Truthy(f[k]) ELSE f[k] # 0}
  IN [k \in kept |-> IF k \in FilterKeys THEN f[k] ELSE ToString(f[k])]

\* The query parameters employeeApi.getAll builds from the filters: an entry
\* is appended unless its value is undefined or '', as value.toString().
\* search, department, title and location hold strings or undefined, page
\* and limit hold numbers, which are neither undefined nor ''.
getAllParams(f) ==
  LET kept == {k \in DOMAIN f :
                 IF k \in FilterKeys THEN f[k] # Undef /\ f[k] # "" ELSE TRUE}
  IN [k \in kept |-> IF k \in FilterKeys THEN f[k] ELSE ToString(f[k])]

\* The list request number id, made by employeeApi.getAll(f).
Request(id, f) == [id |-> id, filters |-> f, query |-> getAllParams(f)]

\* The synchronous part of loadEmployees, up to the await, for the closure
\* value f of `filters`.
loadEmployees(f) ==
  /\ loading' = TRUE
  /\ error' = Null
  /\ seq' = seq + 1
  /\ listInflight' = listInflight \cup {Request(seq + 1, f)}

\* The effects of the first render: the fetch effect of EmployeeList,
\* useEffect(() => { loadEmployees(); }, [loadEmployees, filters]), and the
\* mount effect of EmployeeFiltersComponent, which requests the options.
Mount ==
  /\ ~mounted
  /\ mounted' = TRUE
  /\ loadEmployees(filters)
  /\ filterOptionsReq' = "pending"
  /\ UNCHANGED <<formVars, filterDepartments, filters, employees, deleteId,
                 deleteConfirmed, nDeletes, deleteInflight, nSubmits,
                 formInflight, sideVars>>

\* setFilters(f) followed by the fetch effect of the render it causes.
SetFiltersAndFetch(f) ==
  /\ mounted
  /\ seq < MaxRequests
  /\ filters' = f
  /\ loadEmployees(f)
  /\ UNCHANGED <<formVars, optionVars, mounted, employees, deleteId,
                 deleteConfirmed, nDeletes, deleteInflight, nSubmits,
                 formInflight, sideVars>>

handleFiltersChange(newFilters) == SetFiltersAndFetch(newFilters)

Min(a, b) == IF a < b THEN a ELSE b

\* Variant: the requested page is clamped to the held result's totalPages.
handlePageChange_Clamped(page) ==
  /\ ~loading
  /\ employees.totalPages > 1
  /\ SetFiltersAndFetch(
       [filters EXCEPT !.page = Min(page, employees.totalPages)])

\* Pagination is rendered only when the list is (not loading) and the held
\* result has more than one page; the handler itself takes any page.
handlePageChange(page) ==
  /\ ~loading
  /\ employees.totalPages > 1
  /\ SetFiltersAndFetch([filters EXCEPT !.page = page])

\* The continuation of loadEmployees after the await, request r answered.
LoadSuccess(r, tp) ==
  /\ r \in listInflight
  /\ listInflight' = listInflight \ {r}
  /\ employees' = Response(r, tp)
  /\ loading' = FALSE
  /\ UNCHANGED <<formVars, optionVars, mounted, filters, error, deleteId,
                 deleteConfirmed, seq, nDeletes, deleteInflight, nSubmits,
                 formInflight, sideVars>>

\* Variant: loading is reset after a success only, not in a finally block.
LoadFailure_KeepsLoading(r) ==
  /\ r \in listInflight
  /\ listInflight' = listInflight \ {r}
  /\ error' = LoadErrMsg
  /\ UNCHANGED <<formVars, optionVars, mounted, filters, employees, loading,
                 deleteId, deleteConfirmed, seq, nDeletes, deleteInflight,
                 nSubmits, formInflight, sideVars>>

\* Variant: a failed fetch clears the list.
LoadFailure_ClearsList(r) ==
  /\ r \in listInflight
  /\ listInflight' = listInflight \ {r}
  /\ employees' = [tag |-> 0, page |-> 1, totalPages |-> 1]
  /\ error' = LoadErrMsg
  /\ loading' = FALSE
  /\ UNCHANGED <<formVars, optionVars, mounted, filters, deleteId,
                 deleteConfirmed, seq, nDeletes, deleteInflight, nSubmits,
                 formInflight, sideVars>>

\* The continuation of loadEmployees after the await, request r rejected
\* (server error or the 10 s timeout).
LoadFailure(r) ==
  /\ r \in listInflight
  /\ listInflight' = listInflight \ {r}
  /\ error' = LoadErrMsg
  /\ loading' = FALSE
  /\ UNCHANGED <<formVars, optionVars, mounted, filters, employees, deleteId,
                 deleteConfirmed, seq, nDeletes, deleteInflight, nSubmits,
                 formInflight, sideVars>>

(***************************************************************************)
(* EmployeeFiltersComponent                                                *)
(***************************************************************************)

\* Variant: the filter update keeps the current page.
handleFilterChange_KeepsPage(key, value) ==
  /\ \/ value = "" /\ Truthy(filters[key])
     \/ key # "search" /\ value # "" /\ value # filters[key]
  /\ handleFiltersChange([filters EXCEPT ![key] = value])

\* onFiltersChange({ ...filters, [key]: value, page: 1 }).  A select fires
\* onChange for an option other than the selected one (the empty option is
\* disabled); a chip's clear button, rendered while the key is set, passes ''.
handleFilterChange(key, value) ==
  /\ \/ value = "" /\ Truthy(filters[key])
     \/ key # "search" /\ value # "" /\ value # filters[key]
  /\ handleFiltersChange([filters EXCEPT ![key] = value, !.page = 1])

\* Variant: the keystroke updates the Filter State, the fetch is put off.
handleSearchChange_Deferred(value) ==
  /\ mounted
  /\ value # OrEmpty(filters.search)
  /\ filters' = [filters EXCEPT !.search = value, !.page = 1]
  /\ UNCHANGED <<formVars, optionVars, mounted, employees, loading, error,
                 deleteId, deleteConfirmed, seq, listInflight, nDeletes,
                 deleteInflight, nSubmits, formInflight, sideVars>>

\* onChange of the search box: the text differs from searchValue, which
\* mirrors filters.search || ''.  The update is passed on at once.
handleSearchChange(value) ==
  /\ value # OrEmpty(filters.search)
  /\ handleFiltersChange([filters EXCEPT !.search = value, !.page = 1])

ClearedFilters ==
  [search |-> "", department |-> "", title |-> "", location |-> "",
   page |-> 1, limit |-> 10]

hasActiveFilters ==
  \/ Truthy(filters.department)
  \/ Truthy(filters.title)
  \/ Truthy(filters.location)
  \/ Truthy(filters.search)

\* Variant: clearing empties the four filters and keeps the page.
clearFilters_KeepsPage ==
  /\ hasActiveFilters
  /\ handleFiltersChange(
       [filters EXCEPT !.search = "", !.department = "", !.title = "",
                       !.location = ""])

\* The Clear button is rendered while hasActiveFilters.
clearFilters ==
  /\ hasActiveFilters
  /\ handleFiltersChange(ClearedFilters)

\* What the option endpoints can answer the filter bar with.
FilterOptionAnswers ==
  {<<"Engineering", "Sales">>, <<"Engineering ", "Engineering">>,
   <<"Sales", "Sales">>}

\* loadFilterOptions after the await, the three option requests answered:
\* setDepartments(deptData), the answer as it came.
FilterOptionsSuccess(answer) ==
  /\ filterOptionsReq = "pending"
  /\ filterOptionsReq' = "done"
  /\ filterDepartments' = answer
  /\ UNCHANGED <<listVars, formVars, sideVars>>

\* loadFilterOptions after the await, an option request rejected: the catch
\* block does nothing.
FilterOptionsFailure ==
  /\ filterOptionsReq = "pending"
  /\ filterOptionsReq' = "failed"
  /\ UNCHANGED <<listVars, formVars, filterDepartments, sideVars>>

(***************************************************************************)
(* EmployeeList: delete with confirmation                                  *)
(***************************************************************************)

\* Variant: the trash button deletes at once, without confirmation.
handleDeleteEmployee_Immediate(id) ==
  /\ mounted
  /\ ~loading
  /\ nDeletes + nSubmits < MaxMutations
  /\ deleteId' = id
  /\ deleteConfirmed' = TRUE
  /\ nDeletes' = nDeletes + 1
  /\ deleteInflight' = deleteInflight \cup
       {[n |-> nDeletes + 1, id |-> id, filters |-> filters]}
  /\ UNCHANGED <<formVars, optionVars, mounted, filters, employees, loading,
                 error, seq, listInflight, nSubmits, formInflight, sideVars>>

\* The trash button of a card; cards are rendered while not loading.
handleDeleteEmployee(id) ==
  /\ mounted
  /\ ~loading
  /\ deleteId' = id
  /\ deleteConfirmed' = FALSE
  /\ UNCHANGED <<formVars, optionVars, mounted, filters, employees, loading,
                 error, seq, listInflight, nDeletes, deleteInflight, nSubmits,
                 formInflight, sideVars>>

\* onConfirm of ConfirmModal (open while deleteId is set), up to the await.
\* The call keeps the closure of the render it was made in: deleteId and
\* loadEmployees, hence filters.
confirmDeleteEmployee ==
  /\ deleteId # Null
  /\ nDeletes + nSubmits < MaxMutations
  /\ nDeletes' = nDeletes + 1
  /\ deleteConfirmed' = TRUE
  /\ deleteInflight' = deleteInflight \cup
       {[n |-> nDeletes + 1, id |-> deleteId, filters |-> filters]}
  /\ UNCHANGED <<formVars, optionVars, mounted, filters, employees, loading,
                 error, deleteId, seq, listInflight, nSubmits,
                 formInflight, sideVars>>

\* Variant: cancelling also reloads the list.
cancelDelete_Reloads ==
  /\ deleteId # Null
  /\ seq < MaxRequests
  /\ deleteId' = Null
  /\ deleteConfirmed' = FALSE
  /\ loadEmployees(filters)
  /\ UNCHANGED <<formVars, optionVars, mounted, filters, employees, nDeletes,
                 deleteInflight, nSubmits, formInflight, sideVars>>

\* onCancel of ConfirmModal: () => setDeleteId(null)
cancelDelete ==
  /\ deleteId # Null
  /\ deleteId' = Null
  /\ deleteConfirmed' = FALSE
  /\ UNCHANGED <<formVars, optionVars, mounted, filters, employees, loading,
                 error, seq, listInflight, nDeletes, deleteInflight, nSubmits,
                 formInflight, sideVars>>

\* confirmDeleteEmployee after the await, delete call d answered.
DeleteSuccess(d) ==
  /\ d \in deleteInflight
  /\ seq < MaxRequests
  /\ deleteInflight' = deleteInflight \ {d}
  /\ deleteId' = Null
  /\ deleteConfirmed' = FALSE
  /\ loadEmployees(d.filters)
  /\ UNCHANGED <<formVars, optionVars, mounted, filters, employees, nDeletes,
                 nSubmits, formInflight, sideVars>>

\* Variant: the catch block leaves the pending identifier set.
DeleteFailure_KeepsPending(d) ==
  /\ d \in deleteInflight
  /\ deleteInflight' = deleteInflight \ {d}
  /\ error' = DeleteErrMsg
  /\ UNCHANGED <<formVars, optionVars, mounted, filters, employees, loading,
                 deleteId, deleteConfirmed, seq, listInflight, nDeletes,
                 nSubmits, formInflight, sideVars>>

\* confirmDeleteEmployee after the await, delete call d rejected.
DeleteFailure(d) ==
  /\ d \in deleteInflight
  /\ deleteInflight' = deleteInflight \ {d}
  /\ error' = DeleteErrMsg
  /\ deleteId' = Null
  /\ deleteConfirmed' = FALSE
  /\ UNCHANGED <<formVars, optionVars, mounted, filters, employees, loading,
                 seq, listInflight, nDeletes, nSubmits, formInflight,
                 sideVars>>

(***************************************************************************)
(* EmployeeList: the form and the refresh after a create or update         *)
(***************************************************************************)

\* EmployeeForm.onSubmit of a valid form as the list controller sees it, up to
\* the await of create or update (both continue the same way).  The call keeps
\* the onSuccess prop of the render it was made in, that is handleFormSuccess
\* with that render's loadEmployees and filters.
SubmitForm ==
  /\ mounted
  /\ nDeletes + nSubmits < MaxMutations
  /\ nSubmits' = nSubmits + 1
  /\ formInflight' = formInflight \cup
       {[n |-> nSubmits + 1, filters |-> filters]}
  /\ UNCHANGED <<formVars, optionVars, mounted, filters, employees, loading,
                 error, deleteId, deleteConfirmed, seq, listInflight, nDeletes,
                 deleteInflight, sideVars>>

\* onSubmit after the await, request m answered without an error key:
\* onSuccess() is handleFormSuccess, onClose() is handleCloseForm.
FormSuccess(m) ==
  /\ m \in formInflight
  /\ seq < MaxRequests
  /\ formInflight' = formInflight \ {m}
  /\ loadEmployees(m.filters)
  /\ UNCHANGED <<formVars, optionVars, mounted, filters, employees, deleteId,
                 deleteConfirmed, nDeletes, deleteInflight, nSubmits,
                 sideVars>>

\* onSubmit after the await, request m rejected or answered with an error
\* key: neither onSuccess nor onClose is called.
FormFailure(m) ==
  /\ m \in formInflight
  /\ formInflight' = formInflight \ {m}
  /\ UNCHANGED <<formVars, optionVars, mounted, filters, employees, loading,
                 error, deleteId, deleteConfirmed, seq, listInflight, nDeletes,
                 deleteInflight, nSubmits, sideVars>>

(***************************************************************************)
(* EmployeeForm                                                            *)
(*                                                                         *)
(* firstName stands for the text inputs (firstName, lastName, email,       *)
(* phone) and department for the selects (department, title, location):    *)
(* the form treats the fields of each group alike.                         *)
(***************************************************************************)

MinSalary == 20000
MaxSalary == 1000000

\* Create mode: the `employee` prop is undefined.
NoEmployee == [id |-> Undef]

Ada ==
  [id |-> "e1", firstName |-> "Ada", department |-> "Engineering",
   salary |-> 50000, manager |-> "Ann", customAvatar |-> Null,
   avatar |-> "initials-e1"]

Bob ==
  [id |-> "e2", firstName |-> "Bob", department |-> "sales",
   salary |-> 60000, manager |-> Undef, customAvatar |-> "img0",
   avatar |-> "initials-e2"]

EmployeeProps == {NoEmployee, Ada, Bob}

\* What the user can type into the inputs, and what the collaborators answer.
FirstNameInputs == {"", "Eve"}
SalaryInputs == {10000, 70000}
ManagerInputs == {"", " ", "Bo"}
DropdownAnswers == {{"Engineering ", "Engineering", "Sales"}, {"Sales"}}
UploadedUrls == {"img1"}

\* String.prototype.trim on the strings of the model.
Trim(str) ==
  CASE str = " " -> ""
    [] str = "Engineering " -> "Engineering"
    [] OTHER -> str

\* normalize(str): (str || '').trim().toLowerCase()
normalize(str) ==
  LET t == Trim(OrEmpty(str))
  IN CASE t = "Engineering" -> "engineering"
       [] t = "Sales" -> "sales"
       [] OTHER -> t

Editing == employee # NoEmployee

\* useForm defaultValues
DefaultValues ==
  [firstName |-> "", department |-> "", salary |-> 0, manager |-> "",
   customAvatar |-> Null]

\* `v || null`
OrNull(v) == IF Truthy(v) THEN v ELSE Null

\* zodResolver(employeeSchema)
Valid(data) ==
  /\ data.firstName # ""
  /\ data.department # ""
  /\ data.salary >= MinSalary
  /\ data.salary <= MaxSalary

\* options.find(o => normalize(o) === normalize(value)) || ''
FindOption(options, value) ==
  IF \E o \in options : normalize(o) = normalize(value)
  THEN CHOOSE o \in options : normalize(o) = normalize(value)
  ELSE ""

\* The population effect: reset(...) with the record's values (which also
\* resets the formState), then the image state.  It runs on the render in
\* which dropdownsLoaded becomes true.
Populate(options) ==
  /\ form' = [firstName |-> employee.firstName,
              department |-> FindOption(options, employee.department),
              salary |-> employee.salary,
              manager |-> OrEmpty(employee.manager),
              customAvatar |-> OrNull(employee.customAvatar)]
  /\ imagePreview' = IF Truthy(employee.customAvatar)
                     THEN employee.customAvatar
                     ELSE OrNull(employee.avatar)
  /\ imageType' = IF Truthy(employee.customAvatar) THEN "customAvatar"
                  ELSE "avatar"
  /\ imageChanged' = FALSE
  /\ isSubmitted' = FALSE

\* loadDropdownOptions after the await, the three option requests answered.
DropdownsSuccess(answer) ==
  /\ open
  /\ dropdownReq = "pending"
  /\ dropdownReq' = "done"
  /\ departments' = {Trim(d) : d \in answer}
  /\ dropdownsLoaded' = TRUE
  /\ IF Editing
     THEN Populate({Trim(d) : d \in answer})
     ELSE UNCHANGED <<form, imagePreview, imageType, imageChanged,
                      isSubmitted>>
  /\ UNCHANGED <<listVars, optionVars, open, employee, uploading,
                 uploadPending, emailError, nSaves, saveInflight, refreshes,
                 imgAction, sideVars>>

\* Variant: the form is populated although the options did not load.
DropdownsFailure_Populates ==
  /\ open
  /\ dropdownReq = "pending"
  /\ dropdownReq' = "failed"
  /\ IF Editing
     THEN Populate(departments)
     ELSE UNCHANGED <<form, imagePreview, imageType, imageChanged,
                      isSubmitted>>
  /\ UNCHANGED <<listVars, optionVars, open, employee, departments,
                 dropdownsLoaded, uploading, uploadPending, emailError, nSaves,
                 saveInflight, refreshes, imgAction, sideVars>>

\* loadDropdownOptions after the await, an option request rejected.
DropdownsFailure ==
  /\ open
  /\ dropdownReq = "pending"
  /\ dropdownReq' = "failed"
  /\ UNCHANGED <<listVars, optionVars, open, employee, departments,
                 dropdownsLoaded, form, imagePreview, imageType, imageChanged,
                 uploading, uploadPending, emailError, nSaves, isSubmitted,
                 saveInflight, refreshes, imgAction, sideVars>>

\* The user edits a registered input or picks a select option.
EditField(field, value) ==
  /\ open
  /\ form[field] # value
  /\ form' = [form EXCEPT ![field] = value]
  /\ UNCHANGED <<listVars, optionVars, open, employee, departments,
                 dropdownsLoaded, dropdownReq, imagePreview, imageType,
                 imageChanged, uploading, uploadPending, emailError, nSaves,
                 isSubmitted, saveInflight, refreshes, imgAction, sideVars>>

\* handleImageChange up to the await; the file input is disabled while
\* uploading.
handleImageChange ==
  /\ open
  /\ ~uploading
  /\ uploading' = TRUE
  /\ uploadPending' = TRUE
  /\ UNCHANGED <<listVars, optionVars, open, employee, departments,
                 dropdownsLoaded, dropdownReq, form, imagePreview, imageType,
                 imageChanged, emailError, nSaves, isSubmitted, saveInflight,
                 refreshes, imgAction, sideVars>>

\* handleImageChange after the await, the image host answered with url.
UploadSuccess(url) ==
  /\ open
  /\ uploadPending
  /\ imagePreview' = url
  /\ form' = [form EXCEPT !.customAvatar = url]
  /\ imageType' = "customAvatar"
  /\ imageChanged' = TRUE
  /\ uploading' = FALSE
  /\ uploadPending' = FALSE
  /\ imgAction' = "uploaded"
  /\ UNCHANGED <<listVars, optionVars, open, employee, departments,
                 dropdownsLoaded, dropdownReq, emailError, nSaves, isSubmitted,
                 saveInflight, refreshes, sideVars>>

\* Variant: only a successful upload ends the uploading state.
UploadFailure_StaysUploading ==
  /\ open
  /\ uploadPending
  /\ uploadPending' = FALSE
  /\ UNCHANGED <<listVars, optionVars, open, employee, departments,
                 dropdownsLoaded, dropdownReq, form, imagePreview, imageType,
                 imageChanged, uploading, emailError, nSaves, isSubmitted,
                 saveInflight, refreshes, imgAction, sideVars>>

\* handleImageChange after the await, the upload rejected.
UploadFailure ==
  /\ open
  /\ uploadPending
  /\ uploading' = FALSE
  /\ uploadPending' = FALSE
  /\ UNCHANGED <<listVars, optionVars, open, employee, departments,
                 dropdownsLoaded, dropdownReq, form, imagePreview, imageType,
                 imageChanged, emailError, nSaves, isSubmitted, saveInflight,
                 refreshes, imgAction, sideVars>>

\* The remove button is rendered while imagePreview is set.
handleRemoveImage ==
  /\ open
  /\ Truthy(imagePreview)
  /\ imagePreview' = Null
  /\ form' = [form EXCEPT !.customAvatar = Null]
  /\ imageType' = "avatar"
  /\ imageChanged' = TRUE
  /\ imgAction' = "removed"
  /\ UNCHANGED <<listVars, optionVars, open, employee, departments,
                 dropdownsLoaded, dropdownReq, uploading, uploadPending,
                 emailError, nSaves, isSubmitted, saveInflight, refreshes,
                 sideVars>>

\* cleanData of onSubmit.
CleanData(data) ==
  [data EXCEPT !.manager = OrNull(Trim(data.manager)),
               !.salary = Min(data.salary, MaxSalary)]

\* The fields onSubmit puts into updateData.
UpdateKeys(clean) ==
  {k \in {"firstName", "department", "salary"} : clean[k] # employee[k]}
    \cup (IF clean.manager # employee.manager THEN {"manager"} ELSE {})
    \cup (IF imageChanged /\ imageType \in {"customAvatar", "avatar"}
          THEN {"customAvatar"} ELSE {})

\* updateData of onSubmit for the submitted values data.
UpdateData(data) ==
  LET clean == CleanData(data)
  IN [k \in UpdateKeys(clean) |->
        CASE k = "manager" ->
               IF Truthy(clean.manager) THEN clean.manager ELSE Undef
          [] k = "customAvatar" ->
               IF imageType = "customAvatar" THEN OrNull(data.customAvatar)
               ELSE Null
          [] OTHER -> clean[k]]

\* The JSON body axios sends for an object: keys holding undefined are left
\* out (only manager can hold undefined).
JsonBody(obj) ==
  [k \in {x \in DOMAIN obj : x # "manager" \/ obj[x] # Undef} |-> obj[k]]

\* Variant: the values are sent without being validated.
onSubmit_Unvalidated ==
  /\ open
  /\ nSaves < MaxSaves
  /\ emailError' = Null
  /\ nSaves' = nSaves + 1
  /\ isSubmitted' = TRUE
  /\ saveInflight' = saveInflight \cup
       {[n |-> nSaves + 1,
         kind |-> IF Editing THEN "update" ELSE "create",
         body |-> IF Editing THEN JsonBody(UpdateData(form))
                  ELSE JsonBody(CleanData(form))]}
  /\ UNCHANGED <<listVars, optionVars, open, employee, departments,
                 dropdownsLoaded, dropdownReq, form, imagePreview, imageType,
                 imageChanged, uploading, uploadPending, refreshes, imgAction,
                 sideVars>>

\* handleSubmit(onSubmit) for values that fail employeeSchema: the resolver
\* reports the errors and onSubmit is not called.
SubmitRejected ==
  /\ open
  /\ ~Valid(form)
  /\ isSubmitted' = TRUE
  /\ UNCHANGED <<listVars, optionVars, open, employee, departments,
                 dropdownsLoaded, dropdownReq, form, imagePreview, imageType,
                 imageChanged, uploading, uploadPending, emailError, nSaves,
                 saveInflight, refreshes, imgAction, sideVars>>

\* onSubmit, called by handleSubmit once the values pass validation, up to
\* the await of employeeApi.update or employeeApi.create.
onSubmit ==
  /\ open
  /\ Valid(form)
  /\ nSaves < MaxSaves
  /\ emailError' = Null
  /\ nSaves' = nSaves + 1
  /\ isSubmitted' = TRUE
  /\ saveInflight' = saveInflight \cup
       {[n |-> nSaves + 1,
         kind |-> IF Editing THEN "update" ELSE "create",
         body |-> IF Editing THEN JsonBody(UpdateData(form))
                  ELSE JsonBody(CleanData(form))]}
  /\ UNCHANGED <<listVars, optionVars, open, employee, departments,
                 dropdownsLoaded, dropdownReq, form, imagePreview, imageType,
                 imageChanged, uploading, uploadPending, refreshes, imgAction,
                 sideVars>>

\* onSubmit after the await, the result has no error key: onSuccess() and
\* onClose().
SaveSuccess(m) ==
  /\ m \in saveInflight
  /\ saveInflight' = saveInflight \ {m}
  /\ refreshes' = refreshes + 1
  /\ open' = FALSE
  /\ UNCHANGED <<listVars, optionVars, employee, departments, dropdownsLoaded,
                 dropdownReq, form, imagePreview, imageType, imageChanged,
                 uploading, uploadPending, emailError, nSaves, isSubmitted,
                 imgAction, sideVars>>

\* Variant: the error branch shows the error without returning.
SaveErrorResult_Closes(m) ==
  /\ m \in saveInflight
  /\ saveInflight' = saveInflight \ {m}
  /\ emailError' = "result.error"
  /\ refreshes' = refreshes + 1
  /\ open' = FALSE
  /\ UNCHANGED <<listVars, optionVars, employee, departments, dropdownsLoaded,
                 dropdownReq, form, imagePreview, imageType, imageChanged,
                 uploading, uploadPending, nSaves, isSubmitted, imgAction,
                 sideVars>>

\* onSubmit after the await, the result carries an error key.
SaveErrorResult(m) ==
  /\ m \in saveInflight
  /\ saveInflight' = saveInflight \ {m}
  /\ emailError' = "result.error"
  /\ UNCHANGED <<listVars, optionVars, open, employee, departments,
                 dropdownsLoaded, dropdownReq, form, imagePreview, imageType,
                 imageChanged, uploading, uploadPending, nSaves, isSubmitted,
                 refreshes, imgAction, sideVars>>

\* onSubmit after the await, the request rejected: the catch block sets
\* emailError when the response carries a message.
SaveFailure(m, hasMessage) ==
  /\ m \in saveInflight
  /\ saveInflight' = saveInflight \ {m}
  /\ emailError' = IF hasMessage THEN "response.data.message" ELSE emailError
  /\ UNCHANGED <<listVars, optionVars, open, employee, departments,
                 dropdownsLoaded, dropdownReq, form, imagePreview, imageType,
                 imageChanged, uploading, uploadPending, nSaves, isSubmitted,
                 refreshes, imgAction, sideVars>>

\* The parent closes the form (the X and Cancel buttons call onClose).
CloseForm ==
  /\ open
  /\ open' = FALSE
  /\ UNCHANGED <<listVars, optionVars, employee, departments, dropdownsLoaded,
                 dropdownReq, form, imagePreview, imageType, imageChanged,
                 uploading, uploadPending, emailError, nSaves, isSubmitted,
                 saveInflight, refreshes, imgAction, sideVars>>

(***************************************************************************)
(* AuthService                                                             *)
(***************************************************************************)

\* What the auth endpoints answer a successful login or register with.
\* The users the backend knows, each named by its id.
Users == {"u1", "u2"}

AuthAnswers ==
  {[access_token |-> "t1", user |-> "u1"],
   [access_token |-> "t2", user |-> "u2"]}

\* JSON.stringify and JSON.parse of a user.
JsonStringify(user) == "{id:" \o user \o "}"
JsonParse(text) == CHOOSE user \in Users : JsonStringify(user) = text

getToken == storage.auth_token

\* getUser: userStr ? JSON.parse(userStr) : null
getUser ==
  IF storage.auth_user = Null THEN Null ELSE JsonParse(storage.auth_user)

\* isAuthenticated: !!this.getToken()
isAuthenticated == Truthy(getToken)

\* login or register up to the await of axios.post.
AuthCall(kind) ==
  /\ nAuth < MaxAuthCalls
  /\ nAuth' = nAuth + 1
  /\ authInflight' = authInflight \cup {[n |-> nAuth + 1, kind |-> kind]}
  /\ UNCHANGED <<pageVars, healthVars, proxyVars, storage>>

login == AuthCall("login")
register == AuthCall("register")

\* login or register after the await, the request answered: setToken and
\* setUser.
AuthSuccess(a, answer) ==
  /\ a \in authInflight
  /\ authInflight' = authInflight \ {a}
  /\ storage' = [auth_token |-> answer.access_token,
                 auth_user |-> JsonStringify(answer.user)]
  /\ UNCHANGED <<pageVars, healthVars, proxyVars, nAuth>>

\* login or register after the await, the request rejected: the catch block
\* throws the failure message.
AuthFailure(a) ==
  /\ a \in authInflight
  /\ authInflight' = authInflight \ {a}
  /\ UNCHANGED <<pageVars, healthVars, proxyVars, storage, nAuth>>

\* Variant: logout removes the token and leaves the user.
logout_KeepsUser ==
  /\ storage' = [storage EXCEPT !.auth_token = Null]
  /\ UNCHANGED <<pageVars, healthVars, proxyVars, nAuth, authInflight>>

\* logout: removeToken and removeUser.
logout ==
  /\ storage' = [auth_token |-> Null, auth_user |-> Null]
  /\ UNCHANGED <<pageVars, healthVars, proxyVars, nAuth, authInflight>>

\* No session: nothing stored, no call made.
AuthInit ==
  /\ storage = [auth_token |-> Null, auth_user |-> Null]
  /\ nAuth = 0
  /\ authInflight = {}

(***************************************************************************)
(* BackendStatus                                                           *)
(***************************************************************************)

\* The two versions of the component's render the repository holds: one
\* shows getStatusText(), the other the fixed text 'API Healthy'.
RenderVersions == {"getStatusText", "fixed"}

getStatusText ==
  CASE status = "loading" -> "Checking..."
    [] status = "healthy" -> "API Healthy"
    [] status = "unhealthy" -> "API Unavailable"

\* The status text the mounted component shows.
ShownStatus ==
  IF statusRender = "fixed" THEN "API Healthy" ELSE getStatusText

\* checkHealth up to the await of healthApi.check().
checkHealth ==
  /\ nChecks < MaxChecks
  /\ status' = "loading"
  /\ nChecks' = nChecks + 1
  /\ healthInflight' = healthInflight \cup {nChecks + 1}
  /\ UNCHANGED <<lastCheck, lastResult>>

\* The mount effect: the first checkHealth(); the interval is started.
HealthMount(version) ==
  /\ statusRender = "unmounted"
  /\ statusRender' = version
  /\ checkHealth
  /\ UNCHANGED <<pageVars, authVars, proxyVars>>

\* The 30 s interval fires: checkHealth().
IntervalTick ==
  /\ statusRender # "unmounted"
  /\ checkHealth
  /\ UNCHANGED <<pageVars, authVars, proxyVars, statusRender>>

\* checkHealth after the await, the check answered.
HealthCheckSuccess(c) ==
  /\ c \in healthInflight
  /\ healthInflight' = healthInflight \ {c}
  /\ status' = "healthy"
  /\ lastCheck' = c
  /\ lastResult' = "succeeded"
  /\ UNCHANGED <<pageVars, authVars, proxyVars, nChecks, statusRender>>

\* checkHealth after the await, the check rejected: the catch block.
HealthCheckFailure(c) ==
  /\ c \in healthInflight
  /\ healthInflight' = healthInflight \ {c}
  /\ status' = "unhealthy"
  /\ lastCheck' = c
  /\ lastResult' = "failed"
  /\ UNCHANGED <<pageVars, authVars, proxyVars, nChecks, statusRender>>

\* The component before its first render's effects ran.
HealthInit ==
  /\ status = "loading"
  /\ lastCheck = 0
  /\ lastResult = "none"
  /\ nChecks = 0
  /\ healthInflight = {}
  /\ statusRender = "unmounted"

(***************************************************************************)
(* API proxy route                                                         *)
(***************************************************************************)

\* The status codes the backend answers with.
BackendStatuses == {200, 201, 204, 400, 404, 409, 422, 500, 502}

\* Response bodies: a JSON document, a text that is not JSON, nothing.
JsonDoc == [kind |-> "json", text |-> "{data}"]
PlainText == [kind |-> "text", text |-> "Bad Gateway"]
NoBody == [kind |-> "empty", text |-> ""]
InternalServerError ==
  [kind |-> "json", text |-> "{message:Internal server error}"]

\* What the backend answers; a 204 has no body.
BackendAnswers ==
  {[kind |-> "answered", status |-> st, body |-> b] :
     st \in BackendStatuses \ {204}, b \in {JsonDoc, PlainText, NoBody}}
    \cup {[kind |-> "answered", status |-> 204, body |-> NoBody]}

NotAsked == [kind |-> "none", status |-> 0, body |-> NoBody]
Unreachable == [kind |-> "unreachable", status |-> 0, body |-> NoBody]

NoResponse == [sent |-> FALSE, status |-> 0, body |-> NoBody]
Reply(st, b) == [sent |-> TRUE, status |-> st, body |-> b]

\* The catch block of every handler.
ProxyError == Reply(500, InternalServerError)

\* GET, POST and PATCH after the fetch: response.json(), which rejects for
\* a body that is not JSON, then NextResponse.json(data, {status}).
JsonOnlyReply(answer) ==
  IF answer.body.kind = "json" THEN Reply(answer.status, answer.body)
  ELSE ProxyError

\* DELETE after the fetch: a 204, an empty body, a body that is not JSON
\* and a JSON body each keep the backend's status.
DeleteReply(answer) ==
  IF answer.status = 204 THEN Reply(204, NoBody)
  ELSE IF answer.body.kind = "empty" THEN Reply(answer.status, NoBody)
  ELSE Reply(answer.status, answer.body)

\* The proxy handles one request at a time here.
ProxyIdle == proxyReq.method = "none" \/ proxyRes.sent

\* A handler up to the await of fetch: the request is forwarded.
Forward(method, body) ==
  /\ ProxyIdle
  /\ proxyReq' = [method |-> method, body |-> body]
  /\ backendAnswer' = NotAsked
  /\ proxyRes' = NoResponse
  /\ UNCHANGED <<pageVars, authVars, healthVars>>

\* POST and PATCH with a request body that is not JSON: request.json()
\* rejects and the catch block answers.
RejectBody(method) ==
  /\ ProxyIdle
  /\ proxyReq' = [method |-> method, body |-> "invalid"]
  /\ backendAnswer' = NotAsked
  /\ proxyRes' = ProxyError
  /\ UNCHANGED <<pageVars, authVars, healthVars>>

GET == Forward("GET", "none")
POST == Forward("POST", "json") \/ RejectBody("POST")
PATCH == Forward("PATCH", "json") \/ RejectBody("PATCH")
DELETE == Forward("DELETE", "none")

\* A handler after the await of fetch, the backend answered.
BackendAnswered(answer) ==
  /\ proxyReq.method # "none"
  /\ ~proxyRes.sent
  /\ backendAnswer' = answer
  /\ proxyRes' = IF proxyReq.method = "DELETE" THEN DeleteReply(answer)
                 ELSE JsonOnlyReply(answer)
  /\ UNCHANGED <<pageVars, authVars, healthVars, proxyReq>>

\* A handler after the await of fetch, the fetch rejected: the backend
\* could not be reached.
BackendUnreachable ==
  /\ proxyReq.method # "none"
  /\ ~proxyRes.sent
  /\ backendAnswer' = Unreachable
  /\ proxyRes' = ProxyError
  /\ UNCHANGED <<pageVars, authVars, healthVars, proxyReq>>

\* No request has reached the proxy.
ProxyInit ==
  /\ proxyReq = [method |-> "none", body |-> "none"]
  /\ backendAnswer = NotAsked
  /\ proxyRes = NoResponse

SideInit == AuthInit /\ HealthInit /\ ProxyInit

\* The form state of a list page that has not opened the form.
FormUnmounted ==
  /\ open = FALSE
  /\ employee = NoEmployee
  /\ departments = {}
  /\ dropdownsLoaded = FALSE
  /\ dropdownReq = "none"
  /\ form = DefaultValues
  /\ imagePreview = Null
  /\ imageType = Null
  /\ imageChanged = FALSE
  /\ uploading = FALSE
  /\ uploadPending = FALSE
  /\ emailError = Null
  /\ nSaves = 0
  /\ isSubmitted = FALSE
  /\ saveInflight = {}
  /\ refreshes = 0
  /\ imgAction = "none"

Init ==
  /\ mounted = FALSE
  /\ filters = InitialFilters
  /\ employees \in {[tag |-> 0, page |-> 1, totalPages |-> tp] :
                      tp \in TotalPagesAnswers}
  /\ loading = FALSE
  /\ error = Null
  /\ deleteId = Null
  /\ deleteConfirmed = FALSE
  /\ seq = 0
  /\ listInflight = {}
  /\ nDeletes = 0
  /\ deleteInflight = {}
  /\ nSubmits = 0
  /\ formInflight = {}
  /\ filterDepartments = <<>>
  /\ filterOptionsReq = "none"
  /\ FormUnmounted
  /\ SideInit

PageChange == \E n \in PageInputs : handlePageChange(n)
ListSucceeds ==
  \E r \in listInflight : \E tp \in TotalPagesAnswers : LoadSuccess(r, tp)
ListFails == \E r \in listInflight : LoadFailure(r)

FilterChange ==
  \E key \in FilterKeys : \E value \in FilterValues(key) :
    handleFilterChange(key, value)
SearchChange == \E value \in FilterValues("search") : handleSearchChange(value)

\* The user goes to the second page.
NextPage == handlePageChange(2)

\* The user types one letter into the search box, or empties it.
SearchOneLetter == \E value \in {"", "a"} : handleSearchChange(value)
RequestDelete == \E id \in Ids : handleDeleteEmployee(id)
DeleteSucceeds == \E d \in deleteInflight : DeleteSuccess(d)
DeleteFails == \E d \in deleteInflight : DeleteFailure(d)
FormSucceeds == \E m \in formInflight : FormSuccess(m)
FormFails == \E m \in formInflight : FormFailure(m)

(***************************************************************************)
(* Properties of the list controller and the filter bar (Spec)             *)
(***************************************************************************)

\* The list requests a step issues.
Issued == listInflight' \ listInflight

\* C1: the held result is only ever replaced by the response to the most
\* recently issued list request; the response to a superseded request is
\* discarded.
C1_OnlyLatestResponseApplied ==
  [][employees' # employees => employees'.tag = seq]_vars

\* C2: every filter update that changes a key other than page (search,
\* department, title, location) leaves the Filter State with page = 1.
C2_FilterChangeResetsPage ==
  [][(\E key \in FilterKeys : filters'[key] # filters[key])
       => filters'.page = 1]_vars

\* From page 5, search was set to "a" and then to "": requests 2, 3 and 4
\* record the Filter State after the page change and after each update.
C2_Witness ==
  \E r2, r3, r4 \in listInflight :
    /\ r2.id = 2 /\ r2.filters.page = 5
    /\ r3.id = 3 /\ r3.filters.search = "a" /\ r3.filters.page = 1
    /\ r4.id = 4 /\ r4.filters.search = "" /\ r4.filters.page = 1
    /\ filters = r4.filters

\* C4: a list fetch that fails leaves the held result unchanged, sets the
\* error message and sets loading to false.
C4_FailureKeepsResult ==
  [][(\E r \in listInflight : LoadFailure(r))
       => /\ employees' = employees
          /\ error' = LoadErrMsg
          /\ loading' = FALSE]_vars

\* A fetch has failed while a fetched result was held: the result is still
\* there, with the error set and loading false.
C4_Witness ==
  /\ employees.tag > 0
  /\ error = LoadErrMsg
  /\ ~loading
  /\ seq > employees.tag
  /\ listInflight = {}

\* C6: whenever a list request is in flight, loading is true.
C6_LoadingWhileInFlight == listInflight # {} => loading

\* C7 (as stated): while a list request is in flight the view shows the
\* previously fetched records.
C7_PriorDataDisplayed ==
  listInflight # {} => Rendered = [region |-> "list", result |-> employees]

\* C7 (amended): issuing a list request leaves the held result unchanged, but
\* the view shows the spinner instead of the records from then on, for as
\* long as loading is true.
C7_HeldButHidden ==
  [][seq' # seq => employees' = employees /\ Rendered'.region = "spinner"]_vars

\* A request was issued over a fetched result: the result is held, the view
\* shows the spinner.
C7_Witness ==
  /\ employees.tag > 0
  /\ listInflight # {}
  /\ loading
  /\ Rendered.region = "spinner"

\* C10: handlePageChange(n) sets page to n and changes no other field of the
\* Filter State, whatever the held result's totalPages, and issues one list
\* request carrying the new Filter State.
C10_PageChangeOnlyPage ==
  [][\A n \in PageInputs :
       handlePageChange(n)
         => /\ filters' = [filters EXCEPT !.page = n]
            /\ Issued = {Request(seq', filters')}
            /\ seq' = seq + 1]_vars

\* Page 5 was requested over a result of 2 pages with a search text set: the
\* Filter State keeps the text, has page 5, and request seq asks for page 5.
C10_Witness ==
  /\ employees.totalPages = 2
  /\ filters.page = 5
  /\ filters.search = "a"
  /\ filters.department = "Engineering"
  /\ Request(seq, filters) \in listInflight

C14_SearchDebounced ==
  [][SearchChange => Issued = {}]_vars

\* C21: clearFilters leaves the Filter State equal to {page: 1, limit: 10,
\* search: '', department: '', title: '', location: ''}, whatever it was
\* before; clearing the state so obtained gives that state again.
C21_ClearResets ==
  [][clearFilters
       => /\ filters' = [search |-> "", department |-> "", title |-> "",
                          location |-> "", page |-> 1, limit |-> 10]
          /\ ClearedFilters = filters']_vars

\* The filters were cleared from page 5 with a search text set: requests
\* seq - 1 and seq record the state before and after.
C21_Witness ==
  \E r1, r2 \in listInflight :
    /\ r1.id = seq - 1
    /\ r1.filters.page = 5
    /\ r1.filters.search = "a"
    /\ r2.id = seq
    /\ r2.filters = ClearedFilters
    /\ filters = ClearedFilters

\* C20: the query of a list request holds exactly the keys of the filters
\* whose value is neither undefined nor the empty string, each with its value
\* as text; page and limit are kept, a numeric 0 included.
C20_QueryOmitsEmpty ==
  [][\A r \in Issued :
       /\ DOMAIN r.query
            = {k \in FilterKeys : r.filters[k] \notin {Undef, ""}}
                \cup {"page", "limit"}
       /\ \A k \in FilterKeys \cap DOMAIN r.query : r.query[k] = r.filters[k]
       /\ r.query.page = ToString(r.filters.page)
       /\ r.query.limit = ToString(r.filters.limit)]_vars

\* A request was made for filters with an empty search, no department,
\* a title and page 0: the query holds the title, page "0" and the limit.
C20_Witness ==
  \E r \in listInflight :
    /\ r.filters.search = ""
    /\ r.filters.department = Undef
    /\ r.filters.page = 0
    /\ r.query = [title |-> "Developer", page |-> "0", limit |-> "10"]

(***************************************************************************)
(* Properties of the mutations (MutationSpec)                              *)
(***************************************************************************)

\* The delete calls a step issues.
DeletesIssued == deleteInflight' \ deleteInflight

\* C3: a delete call for id X is issued only by the confirm action, taken in
\* a state where X is the pending-delete identifier (set by an earlier delete
\* request); requesting a delete and cancelling issue no delete call.
C3_DeleteOnlyAfterConfirm ==
  [][/\ \A d \in DeletesIssued :
          /\ deleteId \in Ids
          /\ d.id = deleteId
          /\ confirmDeleteEmployee
     /\ (\E id \in Ids : handleDeleteEmployee(id))
          => DeletesIssued = {} /\ nDeletes' = nDeletes
     /\ cancelDelete => DeletesIssued = {} /\ nDeletes' = nDeletes
     /\ (deleteId' \in Ids /\ deleteId' # deleteId)
          => \E id \in Ids : handleDeleteEmployee(id)]_vars

\* A delete call for the pending identifier is in flight, issued by confirm.
C3_Witness ==
  \E d \in deleteInflight : d.id = deleteId /\ d.n = nDeletes

\* C8: a list fetch that completes successfully leaves the result equal to
\* its response, error null and loading false.
C8_SuccessClearsError ==
  [][\A r \in listInflight : \A tp \in TotalPagesAnswers :
       LoadSuccess(r, tp)
         => /\ employees' = Response(r, tp)
            /\ error' = Null
            /\ loading' = FALSE]_vars

\* C9: a successful create, update or delete issues one list request, and it
\* carries the Filter State current at that moment.
C9_RefreshCarriesCurrentFilters ==
  [][(DeleteSucceeds \/ FormSucceeds)
       => Issued = {Request(seq', filters')}]_vars

\* C27: the confirm action issues a delete call only if it has not issued
\* one since the pending-delete identifier was set: one delete request leads
\* to at most one delete call.
C27_OneCallPerDeleteRequest ==
  [][\A d \in DeletesIssued : d.id = deleteId => ~deleteConfirmed]_vars

\* C11: a confirmed delete that fails resets the pending-delete identifier to
\* none and sets the delete error message; the held result and the Filter
\* State stay as they are, and no delete call and no list request is issued.
C11_DeleteFailureNoRetry ==
  [][\A d \in deleteInflight :
       DeleteFailure(d)
         => /\ deleteId' = Null
            /\ error' = DeleteErrMsg
            /\ employees' = employees
            /\ filters' = filters
            /\ DeletesIssued = {} /\ nDeletes' = nDeletes
            /\ Issued = {} /\ seq' = seq]_vars

\* The only delete call issued has failed over a fetched result: nothing is
\* pending, the delete message is shown, no call of any kind is in flight.
C11_Witness ==
  /\ nDeletes = 1
  /\ deleteInflight = {}
  /\ deleteId = Null
  /\ error = DeleteErrMsg
  /\ employees.tag > 0
  /\ listInflight = {}

\* C12: cancelling a pending delete sets the pending-delete identifier to
\* none and leaves the Filter State, the held result, the error message, the
\* loading flag and the calls in flight as they are.
C12_CancelOnlyClearsPending ==
  [][cancelDelete
       => /\ deleteId' = Null
          /\ UNCHANGED <<filters, employees, error, loading, listInflight,
                         deleteInflight, formInflight, sideVars>>]_vars

\* The delete was confirmed and then cancelled while its call and a list
\* request were in flight: nothing is pending, both are still in flight.
C12_Witness ==
  /\ nDeletes = 1
  /\ Cardinality(deleteInflight) = 1
  /\ deleteId = Null
  /\ listInflight # {}
  /\ loading

\* The list controller and the filter bar.
Next ==
  \/ Mount
  \/ PageChange
  \/ FilterChange
  \/ SearchChange
  \/ clearFilters
  \/ ListSucceeds
  \/ ListFails

Spec == Init /\ [][Next]_vars

\* Every list request is answered or runs into the 10 s timeout of the axios
\* instance: a request in flight does not stay in flight for ever.
ListFairness == WF_vars(ListSucceeds \/ ListFails)

LiveSpec == Init /\ [][Next]_vars /\ ListFairness

\* C24: whenever loading is true it becomes false again, and loading is
\* never true when no list request is in flight.
C24_LoadingEnds ==
  /\ loading ~> ~loading
  /\ [](listInflight = {} => ~loading)

\* Several fetch cycles have run, the last one to end ran into a failure,
\* and nothing is in flight: the spinner is gone.
C24_Witness ==
  /\ mounted
  /\ seq >= 3
  /\ listInflight = {}
  /\ error = LoadErrMsg
  /\ ~loading

\* employeeApi.getAll applied to the filters it can be given.
FilterInputs ==
  [search : {Undef, "", "a"}, department : {Undef, "", "Engineering"},
   title : {Undef, "Developer"}, location : {Undef, ""},
   page : {0, 1, 5}, limit : {0, 10}]

QueryInit ==
  /\ mounted = FALSE
  /\ filters \in FilterInputs
  /\ employees = [tag |-> 0, page |-> 1, totalPages |-> 1]
  /\ loading = FALSE
  /\ error = Null
  /\ deleteId = Null
  /\ deleteConfirmed = FALSE
  /\ seq = 0
  /\ listInflight = {}
  /\ nDeletes = 0
  /\ deleteInflight = {}
  /\ nSubmits = 0
  /\ formInflight = {}
  /\ filterDepartments = <<>>
  /\ filterOptionsReq = "none"
  /\ FormUnmounted
  /\ SideInit

QueryNext ==
  \/ Mount
  \/ ListSucceeds
  \/ ListFails

QuerySpec == QueryInit /\ [][QueryNext]_vars

FilterOptionsLoad ==
  \E answer \in FilterOptionAnswers : FilterOptionsSuccess(answer)

\* The filter bar with its options, while the filters change and list
\* requests are answered.
OptionsNext ==
  \/ Mount
  \/ FilterOptionsLoad
  \/ FilterOptionsFailure
  \/ FilterChange
  \/ SearchOneLetter
  \/ ListSucceeds
  \/ ListFails

OptionsSpec == Init /\ [][OptionsNext]_vars

\* C22: the options held by the filter bar and by the form have no two equal
\* entries and no entry with leading or trailing whitespace, and the filter
\* bar requests its options at mount only, not when the Filter State changes.
C22_OptionsNormalised ==
  [][/\ \A i, j \in DOMAIN filterDepartments' :
          i # j => filterDepartments'[i] # filterDepartments'[j]
     /\ \A i \in DOMAIN filterDepartments' :
          Trim(filterDepartments'[i]) = filterDepartments'[i]
     /\ \A d \in departments' : Trim(d) = d
     /\ (filterOptionsReq # "pending" /\ filterOptionsReq' = "pending")
          => ~mounted /\ filters' = filters]_vars

\* The list controller with its mutations: delete with confirmation and the
\* refresh after a create or update, while the search text and the page
\* change and list requests are answered.
RefreshBudget == seq < MaxRefreshes

MutationNext ==
  \/ Mount
  \/ RefreshBudget /\ NextPage
  \/ RefreshBudget /\ SearchOneLetter
  \/ ListSucceeds
  \/ ListFails
  \/ RequestDelete
  \/ confirmDeleteEmployee
  \/ cancelDelete
  \/ RefreshBudget /\ DeleteSucceeds
  \/ DeleteFails
  \/ SubmitForm
  \/ RefreshBudget /\ FormSucceeds
  \/ FormFails

MutationSpec == Init /\ [][MutationNext]_vars

(***************************************************************************)
(* Properties of the session (AuthSpec)                                    *)
(***************************************************************************)

LoginSucceeds ==
  \E a \in authInflight : \E answer \in AuthAnswers : AuthSuccess(a, answer)
LoginFails == \E a \in authInflight : AuthFailure(a)

AuthNext ==
  \/ login
  \/ register
  \/ LoginSucceeds
  \/ LoginFails
  \/ logout

AuthSpec == Init /\ [][AuthNext]_vars

\* C23: no token and no user are stored before the first call; a successful
\* login or register stores the token and the user it was answered with; a
\* logout removes both; a failed login or register leaves both as they are;
\* isAuthenticated() is true exactly when a token is stored.
C23_SessionLifecycle ==
  [][/\ nAuth = 0 => getToken = Null /\ getUser = Null
     /\ \A a \in authInflight : \A answer \in AuthAnswers :
          AuthSuccess(a, answer)
            => getToken' = answer.access_token /\ getUser' = answer.user
     /\ logout => getToken' = Null /\ getUser' = Null
     /\ (\E a \in authInflight : AuthFailure(a)) => storage' = storage
     /\ isAuthenticated' <=> getToken' # Null
     /\ getToken' = Null <=> getUser' = Null]_vars

\* A login was answered after another session had been stored and logged
\* out or replaced: the token and the user of the second answer are stored,
\* one call is still unanswered.
C23_Witness ==
  /\ nAuth = 3
  /\ Cardinality(authInflight) = 1
  /\ getToken = "t2"
  /\ getUser = "u2"
  /\ isAuthenticated

(***************************************************************************)
(* Properties of the health monitor (HealthSpec)                           *)
(***************************************************************************)

MountStatus == \E version \in RenderVersions : HealthMount(version)
HealthSucceeds == \E c \in healthInflight : HealthCheckSuccess(c)
HealthFails == \E c \in healthInflight : HealthCheckFailure(c)

HealthNext ==
  \/ MountStatus
  \/ IntervalTick
  \/ HealthSucceeds
  \/ HealthFails

HealthSpec == Init /\ [][HealthNext]_vars

\* C29: a health check that succeeds leaves status 'healthy' and the text
\* 'API Healthy', one that fails leaves status 'unhealthy' and the text
\* 'API Unavailable'; while the most recent completed check is a failed one
\* the text is never 'API Healthy'.
C29_ShownStatusFollowsChecks ==
  [][/\ HealthSucceeds
          => status' = "healthy" /\ ShownStatus' = "API Healthy"
     /\ HealthFails
          => status' = "unhealthy" /\ ShownStatus' = "API Unavailable"
     /\ lastResult' = "failed" => ShownStatus' # "API Healthy"]_vars

(***************************************************************************)
(* Properties of the API proxy route (ProxySpec)                           *)
(***************************************************************************)

BackendResponds == \E answer \in BackendAnswers : BackendAnswered(answer)

ProxyNext ==
  \/ GET
  \/ POST
  \/ PATCH
  \/ DELETE
  \/ BackendResponds
  \/ BackendUnreachable

ProxySpec == Init /\ [][ProxyNext]_vars

\* C30: a response of the proxy to a request the backend answered has the
\* backend's status and body, whatever the method and the body; the proxy
\* answers 500 'Internal server error' only if the backend could not be
\* reached.
C30_ProxyRelaysBackend ==
  proxyRes.sent
    => /\ backendAnswer.kind = "answered"
            => /\ proxyRes.status = backendAnswer.status
               /\ proxyRes.body = backendAnswer.body
       /\ proxyRes = ProxyError => backendAnswer.kind = "unreachable"

(***************************************************************************)
(* Properties of the form (FormSpec)                                       *)
(***************************************************************************)

\* The create/update requests a step sends.
Sent == saveInflight' \ saveInflight

\* C5: for a record whose customAvatar is null, an update submitted without
\* any image action carries no customAvatar field, and an update submitted
\* after 'remove image' carries customAvatar = null.
C5_AvatarFieldFollowsImageAction ==
  [][\A m \in Sent :
       (m.kind = "update" /\ employee.customAvatar = Null)
         => /\ imgAction = "none" => "customAvatar" \notin DOMAIN m.body
            /\ imgAction = "removed"
                 => /\ "customAvatar" \in DOMAIN m.body
                    /\ m.body.customAvatar = Null]_vars

\* C25: an update submitted in an edit session whose last image action is a
\* successful upload carries customAvatar, holding the uploaded URL, whether
\* the options arrived before or after the upload.
C25_UploadedAvatarSent ==
  [][\A m \in Sent :
       (m.kind = "update" /\ imgAction = "uploaded")
         => /\ "customAvatar" \in DOMAIN m.body
            /\ m.body.customAvatar \in UploadedUrls]_vars

\* C15: an update carries exactly the fields whose submitted value differs
\* from the record's, each with the submitted value: an unchanged field is
\* absent, and a department that differs from the record's only in case or
\* surrounding whitespace, or an empty manager for a record without one, is
\* unchanged.  (The avatar field follows the image action, see C5.)
C15_PayloadIsFieldDiff ==
  [][\A m \in Sent :
       m.kind = "update"
         => /\ \A k \in {"firstName", "salary"} :
                 /\ k \in DOMAIN m.body <=> form[k] # employee[k]
                 /\ k \in DOMAIN m.body => m.body[k] = form[k]
            /\ "department" \in DOMAIN m.body
                 <=> normalize(form.department) # normalize(employee.department)
            /\ "department" \in DOMAIN m.body
                 => m.body.department = form.department
            /\ "manager" \in DOMAIN m.body
                 <=> Trim(form.manager) # OrEmpty(employee.manager)]_vars

\* C16: an update submitted with an empty or whitespace-only manager for a
\* record that has a manager carries a manager field, holding a clearing
\* value.
C16_ClearedManagerSent ==
  [][\A m \in Sent :
       (m.kind = "update" /\ Truthy(employee.manager)
          /\ Trim(form.manager) = "")
         => /\ "manager" \in DOMAIN m.body
            /\ m.body.manager \in {Null, ""}]_vars

\* C17: in edit mode the form is reset with the record's values only with
\* the option lists loaded: while dropdownsLoaded is false no department is
\* set, a step that replaces several fields at once (a reset, not an edit)
\* leaves dropdownsLoaded true, and the step that loads the options puts in
\* the record's values, the department being the matching loaded option or
\* the empty value.
C17_PopulatedAfterOptions ==
  [][Editing
       => /\ ~dropdownsLoaded => form.department = ""
          /\ (form'.firstName # form.firstName /\ form'.salary # form.salary)
               => dropdownsLoaded'
          /\ (~dropdownsLoaded /\ dropdownsLoaded')
               => /\ form'.firstName = employee.firstName
                  /\ form'.salary = employee.salary
                  /\ form'.department \in departments' \cup {""}
                  /\ form'.department
                       = FindOption(departments', employee.department)]_vars

\* A record whose department is spelt "sales" was populated from the loaded
\* options: the form holds the option "Sales".
C17_Witness ==
  /\ Editing
  /\ dropdownsLoaded
  /\ form.firstName = employee.firstName
  /\ employee.department = "sales"
  /\ form.department = "Sales"
  /\ "Sales" \in departments

\* C26: in edit mode, when the option requests complete, whether they
\* succeeded or failed, the form holds the record's values.
C26_PopulatedOnceOptionsComplete ==
  [][(Editing /\ Editing' /\ dropdownReq = "pending"
        /\ dropdownReq' \in {"done", "failed"})
       => /\ form'.firstName = employee.firstName
          /\ form'.salary = employee.salary
          /\ form'.manager = OrEmpty(employee.manager)]_vars

\* C28: onSuccess (the list refresh) is called only by the step in which a
\* create or update request is answered without an error key, and that step
\* closes the form; a rejected request or a result with an error key calls
\* neither onSuccess nor onClose: the form stays as open as it was and no
\* refresh is counted.
C28_SuccessOnlyClosesAndRefreshes ==
  [][/\ refreshes' # refreshes
          => \E m \in saveInflight : SaveSuccess(m) /\ ~open'
     /\ \A m \in saveInflight :
          (SaveErrorResult(m) \/ \E hasMessage \in BOOLEAN :
                                   SaveFailure(m, hasMessage))
            => open' = open /\ refreshes' = refreshes]_vars

\* A save was answered with an error key: the form is still open, shows the
\* error, and no refresh was asked for.
C28_Witness ==
  /\ open
  /\ nSaves = 1
  /\ saveInflight = {}
  /\ emailError = "result.error"
  /\ refreshes = 0

\* The image state of the form: the candidate customAvatar, the preview, the
\* avatar type and the touched flag.
ImageState == <<form.customAvatar, imagePreview, imageType, imageChanged>>

\* C18: selecting a file starts the upload and changes nothing of the image
\* state; a successful upload makes the returned URL the candidate
\* customAvatar and the preview, the avatar type custom and the image touched;
\* a failed upload leaves the image state as it is; uploading is true exactly
\* while the request is pending.
C18_UploadSideFlow ==
  [][/\ handleImageChange
          => uploading' /\ uploadPending' /\ ImageState' = ImageState
     /\ \A url \in UploadedUrls :
          UploadSuccess(url)
            => /\ ImageState' = <<url, url, "customAvatar", TRUE>>
               /\ ~uploading' /\ ~uploadPending'
     /\ UploadFailure
          => ImageState' = ImageState /\ ~uploading' /\ ~uploadPending'
     /\ open => (uploading <=> uploadPending)
     /\ open' => (uploading' <=> uploadPending')]_vars

\* An upload has succeeded for a record that had no custom avatar, and a
\* second file was selected: the first URL is the candidate while the second
\* request is pending.
C18_Witness ==
  /\ open
  /\ employee.id = "e1"
  /\ ImageState = <<"img1", "img1", "customAvatar", TRUE>>
  /\ imgAction = "uploaded"
  /\ uploading
  /\ uploadPending

\* C19: every create or update request is sent for values that pass the
\* validation, a salary it carries lies within [MinSalary, MaxSalary], and a
\* submission that fails the validation (a salary out of range among them)
\* sends no request.
C19_InvalidNeverSent ==
  [][/\ \A m \in Sent :
          /\ Valid(form)
          /\ "salary" \in DOMAIN m.body
               => m.body.salary >= MinSalary /\ m.body.salary <= MaxSalary
     /\ (form.salary < MinSalary \/ form.salary > MaxSalary) => Sent = {}
     /\ SubmitRejected => Sent = {} /\ nSaves' = nSaves]_vars

\* A new employee with every field filled in but a salary of 10000 was
\* submitted: the submission was rejected, nothing has been sent.
C19_Witness ==
  /\ ~Editing
  /\ form.firstName # ""
  /\ form.department # ""
  /\ form.salary = 10000
  /\ isSubmitted
  /\ nSaves = 0
  /\ saveInflight = {}

\* The list page behind an open form.
ListIdle ==
  /\ mounted = TRUE
  /\ filters = InitialFilters
  /\ employees = [tag |-> 0, page |-> 1, totalPages |-> 1]
  /\ loading = FALSE
  /\ error = Null
  /\ deleteId = Null
  /\ deleteConfirmed = FALSE
  /\ seq = 0
  /\ listInflight = {}
  /\ nDeletes = 0
  /\ deleteInflight = {}
  /\ nSubmits = 0
  /\ formInflight = {}
  /\ filterDepartments = <<"Engineering", "Sales">>
  /\ filterOptionsReq = "done"

\* EmployeeForm just mounted, for a record to edit or for a new one: the
\* useState initial values, the option requests of the mount effect sent.
FormInit ==
  /\ ListIdle
  /\ SideInit
  /\ open = TRUE
  /\ employee \in EmployeeProps
  /\ departments = {}
  /\ dropdownsLoaded = FALSE
  /\ dropdownReq = "pending"
  /\ form = DefaultValues
  /\ imagePreview = IF ~Editing THEN Null
                    ELSE IF Truthy(employee.customAvatar)
                         THEN employee.customAvatar
                         ELSE OrNull(employee.avatar)
  /\ imageType = Null
  /\ imageChanged = FALSE
  /\ uploading = FALSE
  /\ uploadPending = FALSE
  /\ emailError = Null
  /\ nSaves = 0
  /\ isSubmitted = FALSE
  /\ saveInflight = {}
  /\ refreshes = 0
  /\ imgAction = "none"

DropdownsLoad == \E answer \in DropdownAnswers : DropdownsSuccess(answer)
EditFirstName == \E v \in FirstNameInputs : EditField("firstName", v)
EditSalary == \E v \in SalaryInputs : EditField("salary", v)
EditManager == \E v \in ManagerInputs : EditField("manager", v)
SelectDepartment == \E v \in departments : EditField("department", v)
UploadSucceeds == \E url \in UploadedUrls : UploadSuccess(url)
SaveSucceeds == \E m \in saveInflight : SaveSuccess(m)
SaveAnswersError == \E m \in saveInflight : SaveErrorResult(m)
SaveFails == \E m \in saveInflight : \E b \in BOOLEAN : SaveFailure(m, b)

FormNext ==
  \/ DropdownsLoad
  \/ DropdownsFailure
  \/ EditFirstName
  \/ EditSalary
  \/ EditManager
  \/ SelectDepartment
  \/ handleImageChange
  \/ UploadSucceeds
  \/ UploadFailure
  \/ handleRemoveImage
  \/ SubmitRejected
  \/ onSubmit
  \/ SaveSucceeds
  \/ SaveAnswersError
  \/ SaveFails
  \/ CloseForm

FormSpec == FormInit /\ [][FormNext]_vars
====
